---- MODULE Spec2Model ----
(***************************************************************************)
(* A model of ilsa2/samplesheetv2.py: the OverrideCycles expander          *)
(* (parse_overrideCycles), the two semantic validators                     *)
(* (illuminasamplesheetv2logic, basespacelogic) and the SampleSheetV2      *)
(* class (validation loop, grouping of sections into applications,         *)
(* to_string).                                                             *)
(*                                                                         *)
(* Python values are represented as follows.                               *)
(*   str        a sequence of one-character strings, "Y2" is <<"Y","2">>   *)
(*   dict       a function whose DOMAIN is the set of keys; an ordered     *)
(*              dict whose order matters is a sequence of <<key, value>>   *)
(*   list       a sequence                                                 *)
(*   a section name is the sequence of its '_'-separated words:            *)
(*              BCLConvert_Settings is <<"BCLConvert","Settings">>         *)
(*   a call     ends in an outcome record: it returned val, or it raised   *)
(***************************************************************************)
EXTENDS Integers, Sequences, FiniteSets

VARIABLES
    pc,          \* position of the running call
    cyclestr,    \* argument of parse_overrideCycles
    doc,         \* the SectionedSheet: a sequence of [key, val] in document order
    validation,  \* the validation argument of SampleSheetV2.__init__
    vidx,        \* position of the validation loop: the next element it takes
    invoked,     \* indices of the validators invoked so far, in order of invocation
    groupRuns,   \* number of times the grouping loop has run
    sheet,       \* the SampleSheetV2 instance (its __dict__), None before it exists
    result       \* outcome of the last call

vars == <<pc, cyclestr, doc, validation, vidx, invoked, groupRuns, sheet, result>>

(***************************************************************************)
(* Bounds of the model.                                                    *)
(***************************************************************************)
MaxSegments == 5      \* ';'-joined sample segments per cycle string
MaxFreeLen == 3       \* length of the exhaustively enumerated cycle strings

(***************************************************************************)
(* Outcomes of a call.                                                     *)
(***************************************************************************)
None == [type |-> "NoneType"]

\* the call returned v
Return(v) == [raised |-> "", msg |-> "", names |-> <<>>, val |-> v]

\* the call raised an exception of class kind with message msg, which names `names`
Raise(kind, msg, names) == [raised |-> kind, msg |-> msg, names |-> names, val |-> <<>>]

(***************************************************************************)
(* parse_overrideCycles                                                    *)
(***************************************************************************)
Letters == {"N", "Y", "I", "U"}

Digits == {"0", "1", "2", "3", "4", "5", "6", "7", "8", "9"}

DigitValue(c) ==
    CASE c = "0" -> 0 [] c = "1" -> 1 [] c = "2" -> 2 [] c = "3" -> 3 [] c = "4" -> 4
      [] c = "5" -> 5 [] c = "6" -> 6 [] c = "7" -> 7 [] c = "8" -> 8 [] c = "9" -> 9

\* int(freq) for a non-empty run of decimal digits
RECURSIVE IntValue(_)
IntValue(freq) ==
    IF Len(freq) = 0 THEN 0
    ELSE 10 * IntValue(SubSeq(freq, 1, Len(freq) - 1)) + DigitValue(freq[Len(freq)])

\* letter * n
RECURSIVE Repeat(_, _)
Repeat(letter, n) == IF n <= 0 THEN <<>> ELSE letter \o Repeat(letter, n - 1)

\* last index of the maximal run of characters of class that starts at i (i-1: no run)
RECURSIVE RunEnd(_, _, _)
RunEnd(s, i, class) ==
    IF i <= Len(s) /\ s[i] \in class THEN RunEnd(s, i + 1, class) ELSE i - 1

\* re.findall("([NYIU]+)([0-9]*);?", s) scanning from position i: the leftmost
\* match starts at the next letter, takes the whole letter run, the whole digit
\* run (possibly empty) and one ';' if it follows; the scan resumes after it
RECURSIVE findall(_, _)
findall(s, i) ==
    IF i > Len(s) THEN <<>>
    ELSE IF s[i] \notin Letters THEN findall(s, i + 1)
    ELSE LET j == RunEnd(s, i, Letters)
             k == RunEnd(s, j + 1, Digits)
             m == IF k + 1 <= Len(s) /\ s[k + 1] = ";" THEN k + 1 ELSE k
         IN  <<[letter |-> SubSeq(s, i, j), freq |-> SubSeq(s, j + 1, k)]>>
                 \o findall(s, m + 1)

\* the loop of expand: res += letter * int(freq); int("") raises ValueError
RECURSIVE expandLoop(_, _)
expandLoop(matches, res) ==
    IF matches = <<>> THEN Return(res)
    ELSE IF Head(matches).freq = <<>>
         THEN Raise("ValueError", "invalid literal for int() with base 10", <<>>)
         ELSE expandLoop(Tail(matches),
                         res \o Repeat(Head(matches).letter, IntValue(Head(matches).freq)))

expand(short) == expandLoop(findall(short, 1), <<>>)

\* index of the first ';' of s at or after i (0: none)
RECURSIVE FirstSemicolon(_, _)
FirstSemicolon(s, i) ==
    IF i > Len(s) THEN 0 ELSE IF s[i] = ";" THEN i ELSE FirstSemicolon(s, i + 1)

\* s.split(";"): never an empty list, "" splits into [""]
RECURSIVE split(_)
split(s) ==
    LET i == FirstSemicolon(s, 1)
    IN  IF i = 0 THEN <<s>>
        ELSE <<SubSeq(s, 1, i - 1)>> \o split(SubSeq(s, i + 1, Len(s)))

\* the keys the branches on len(cycles) assign after Read1Cycles, each with the
\* index of the segment it expands
SegmentNames_swapped(n) ==
    CASE n = 2 -> <<<<"Read2Cycles", 2>>>>
      [] n = 3 -> <<<<"Read2Cycles", 2>>, <<"Index1Cycles", 3>>>>
      [] n = 4 -> <<<<"Index1Cycles", 2>>, <<"Index2Cycles", 3>>, <<"Read2Cycles", 4>>>>
      [] OTHER -> <<>>

SegmentNames(n) ==
    CASE n = 2 -> <<<<"Read2Cycles", 2>>>>
      [] n = 3 -> <<<<"Index1Cycles", 2>>, <<"Read2Cycles", 3>>>>
      [] n = 4 -> <<<<"Index1Cycles", 2>>, <<"Index2Cycles", 3>>, <<"Read2Cycles", 4>>>>
      [] OTHER -> <<>>

\* res[name] = expand(cycles[idx]) for each <<name, idx>> of todo, in order; the
\* first expand that raises ends the call
RECURSIVE expandInto(_, _, _)
expandInto(res, cycles, todo) ==
    IF todo = <<>> THEN Return(res)
    ELSE LET e == expand(cycles[Head(todo)[2]])
         IN  IF e.raised # "" THEN e
             ELSE expandInto(Append(res, <<Head(todo)[1], e.val>>), cycles, Tail(todo))

parse_overrideCycles(str) ==
    LET cycles == split(str)
    IN  IF Len(cycles) < 1
        THEN Raise("Exception", "cannot be parsed to a cycle sequence", str)
        ELSE LET first == expandInto(<<>>, cycles, <<<<"Read1Cycles", 1>>>>)
             IN  IF first.raised # "" THEN first
                 ELSE IF Len(cycles) \in 1..4
                      THEN expandInto(first.val, cycles, SegmentNames(Len(cycles)))
                      ELSE Raise("Exception", "defines too many elements", str)

(***************************************************************************)
(* Inputs of parse_overrideCycles: every string of at most MaxFreeLen      *)
(* characters over a small alphabet, and the ';'-joins of at most          *)
(* MaxSegments sample segments.                                            *)
(***************************************************************************)
FreeAlphabet == {"Y", "N", "1", ";", "X"}

SegmentSamples ==
    { <<"Y", "2">>,                    \* Y2
      <<"I", "1", "N", "1", "0">>,     \* I1N10
      <<>>,                            \* an empty segment
      <<"Y">>,                         \* a letter without digits
      <<"N", "Y", "2">> }              \* two letters sharing one digit run

RECURSIVE Join(_)
Join(segs) ==
    IF Len(segs) = 0 THEN <<>>
    ELSE IF Len(segs) = 1 THEN segs[1]
    ELSE segs[1] \o <<";">> \o Join(Tail(segs))

CycleStrings ==
    UNION { [1..n -> FreeAlphabet] : n \in 0..MaxFreeLen }
    \cup { Join(segs) : segs \in UNION { [1..n -> SegmentSamples] : n \in 0..MaxSegments } }

InitParse ==
    /\ pc = "parse"
    /\ cyclestr \in CycleStrings
    /\ doc = <<>>
    /\ validation = None
    /\ vidx = 1
    /\ invoked = <<>>
    /\ groupRuns = 0
    /\ sheet = None
    /\ result = None

CallParse ==
    /\ pc = "parse"
    /\ result' = parse_overrideCycles(cyclestr)
    /\ pc' = "parsed"
    /\ UNCHANGED <<cyclestr, doc, validation, vidx, invoked, groupRuns, sheet>>

NextParse == CallParse

SpecParse == InitParse /\ [][NextParse]_vars

(***************************************************************************)
(* The grammar of the specification, SEGMENT (';' SEGMENT)* with SEGMENT   *)
(* one or more LETTER DIGITS pairs, and the expansion it prescribes.       *)
(***************************************************************************)
RECURSIVE IsSegment(_)
IsSegment(seg) ==
    /\ Len(seg) >= 2
    /\ seg[1] \in Letters
    /\ seg[2] \in Digits
    /\ LET k == RunEnd(seg, 2, Digits)
       IN  k = Len(seg) \/ IsSegment(SubSeq(seg, k + 1, Len(seg)))

Conforms(str) == \A i \in 1..Len(split(str)) : IsSegment(split(str)[i])

\* each letter repeated by its count, concatenated
RECURSIVE GrammarExpansion(_)
GrammarExpansion(seg) ==
    IF Len(seg) = 0 THEN <<>>
    ELSE LET k == RunEnd(seg, 2, Digits)
         IN  [i \in 1..IntValue(SubSeq(seg, 2, k)) |-> seg[1]]
                 \o GrammarExpansion(SubSeq(seg, k + 1, Len(seg)))

\* the sum of the counts of a segment
RECURSIVE SumCounts(_)
SumCounts(seg) ==
    IF Len(seg) = 0 THEN 0
    ELSE LET k == RunEnd(seg, 2, Digits)
         IN  IntValue(SubSeq(seg, 2, k)) + SumCounts(SubSeq(seg, k + 1, Len(seg)))

\* the segment names the specification fixes for n segments, in segment order
NamesByCount(n) ==
    CASE n = 1 -> <<"Read1Cycles">>
      [] n = 2 -> <<"Read1Cycles", "Read2Cycles">>
      [] n = 3 -> <<"Read1Cycles", "Index1Cycles", "Read2Cycles">>
      [] n = 4 -> <<"Read1Cycles", "Index1Cycles", "Index2Cycles", "Read2Cycles">>
      [] OTHER -> <<>>

\* C1: for a conforming string of 1 to 4 segments parse_overrideCycles returns the
\* mapping whose keys are the names fixed by the segment count, the i-th name
\* holding the expansion of the i-th segment (each letter repeated by its count),
\* whose length is the sum of the segment's counts
ParseExpandsConforming ==
    (pc = "parsed" /\ Conforms(cyclestr) /\ Len(split(cyclestr)) \in 1..4) =>
        LET segs == split(cyclestr)
            names == NamesByCount(Len(segs))
        IN  /\ result.raised = ""
            /\ Len(result.val) = Len(segs)
            /\ { result.val[i] : i \in 1..Len(result.val) }
                   = { <<names[i], GrammarExpansion(segs[i])>> : i \in 1..Len(segs) }
            /\ \A i \in 1..Len(segs) : Len(result.val[i][2]) = SumCounts(segs[i])

\* a conforming string of 3 segments, one of them with two pairs and a two-digit
\* count, has been expanded
ParseExpandsConformingWitness ==
    /\ pc = "parsed"
    /\ Conforms(cyclestr)
    /\ Len(split(cyclestr)) = 3
    /\ result.raised = ""
    /\ \E i \in 1..Len(result.val) :
           result.val[i][1] = "Index1Cycles" /\ Len(result.val[i][2]) = 11

\* C2: the empty string and every string of 5 or more segments fail with the parse
\* error that names the string
ParseRejectsBadSegmentCount ==
    (pc = "parsed" /\ (cyclestr = <<>> \/ Len(split(cyclestr)) >= 5)) =>
        (result.raised = "Exception" /\ result.names = cyclestr)

\* C10: every string that deviates from the grammar fails
ParseRejectsDeviation ==
    (pc = "parsed" /\ ~Conforms(cyclestr)) => result.raised # ""

(***************************************************************************)
(* The SectionedSheet and the values of its sections.                      *)
(* A settings section (Header, Reads, <App>_Settings) is a dict from key   *)
(* to a typed value; a data section is a list of rows, each a dict from    *)
(* column name to str.                                                     *)
(***************************************************************************)
PyInt(n) == [type |-> "int", v |-> n]

PyStr(s) == [type |-> "str", v |-> s]

Header == <<"Header">>

Reads == <<"Reads">>

BCLConvert_Settings == <<"BCLConvert", "Settings">>

BCLConvert_Data == <<"BCLConvert", "Data">>

Cloud_Settings == <<"Cloud", "Settings">>

Cloud_Data == <<"Cloud", "Data">>

\* doc.keys()
keys(d) == { d[i].key : i \in 1..Len(d) }

\* key in doc
In(key, d) == key \in keys(d)

\* the content of a section: a dict (settings) or a list of rows (data); the
\* field that is not its kind is empty
EmptyDict == [k \in {} |-> <<>>]

DictContent(dict) == [kind |-> "dict", dict |-> dict, list |-> <<>>]

ListContent(rows) == [kind |-> "list", dict |-> EmptyDict, list |-> rows]

\* doc[key], for a key of doc
Get(d, key) == d[CHOOSE i \in 1..Len(d) : d[i].key = key].val

\* len(x): defined on str, a TypeError on int
PyLen(x) ==
    IF x.type = "str" THEN Return(Len(x.v))
    ELSE Raise("TypeError", "object of type 'int' has no len()", <<>>)

\* x != n for an int n
PyNe(x, n) == ~(x.type = "int" /\ x.v = n)

(***************************************************************************)
(* illuminasamplesheetv2logic                                              *)
(***************************************************************************)
\* the loop over cycles.items(): every produced segment is in Reads with the
\* length of its expansion
RECURSIVE checkProduced(_, _)
checkProduced(d, items) ==
    IF items = <<>> THEN Return(None)
    ELSE LET elemname == Head(items)[1]
             elemseq == Head(items)[2]
         IN  IF ~In(Reads, d) THEN Raise("KeyError", "Reads", <<>>)
             ELSE IF elemname \notin DOMAIN Get(d, Reads).dict
             THEN Raise("Exception", "OverrideCycles defines it, but it is not specified in the Reads section", <<elemname>>)
             ELSE IF PyNe(Get(d, Reads).dict[elemname], Len(elemseq))
             THEN Raise("Exception", "Reads count differs from the length OverrideCycles specifies", <<elemname>>)
             ELSE checkProduced(d, Tail(items))

\* the names the second loop iterates: those of the four that are keys of doc
declaredIn(d) ==
    SelectSeq(<<"Read1Cycles", "Read2Cycles", "Index1Cycles", "Index2Cycles">>,
              LAMBDA i : In(<<i>>, d))

\* the loop over those names: each must be a key of cycles
RECURSIVE checkDeclared(_, _)
checkDeclared(names, cycles) ==
    IF names = <<>> THEN Return(None)
    ELSE IF Head(names) \notin { cycles[i][1] : i \in 1..Len(cycles) }
         THEN Raise("Exception", "Reads defines it, but OverrideCycles is incompatible with it", <<Head(names)>>)
         ELSE checkDeclared(Tail(names), cycles)

overrideCyclesRule(d) ==
    LET settings == Get(d, BCLConvert_Settings).dict
    IN  IF "OverrideCycles" \notin DOMAIN settings THEN Return(None)
        ELSE LET cycles == parse_overrideCycles(settings["OverrideCycles"].v)
             IN  IF cycles.raised # "" THEN cycles
                 ELSE LET produced == checkProduced(d, cycles.val)
                      IN  IF produced.raised # "" THEN produced
                          ELSE checkDeclared(declaredIn(d), cycles.val)

\* len(settings[adapter]) > len(doc['Reads'][cyclesname]), operands left to right
adapterTooLong(d, adapter, cyclesname) ==
    LET left == PyLen(Get(d, BCLConvert_Settings).dict[adapter])
    IN  IF left.raised # "" THEN left
        ELSE IF ~In(Reads, d) THEN Raise("KeyError", "Reads", <<>>)
        ELSE IF cyclesname \notin DOMAIN Get(d, Reads).dict THEN Raise("KeyError", cyclesname, <<>>)
        ELSE LET right == PyLen(Get(d, Reads).dict[cyclesname])
             IN  IF right.raised # "" THEN right ELSE Return(left.val > right.val)

adapterRead1Rule(d) ==
    IF "AdapterRead1" \notin DOMAIN Get(d, BCLConvert_Settings).dict THEN Return(None)
    ELSE LET longer == adapterTooLong(d, "AdapterRead1", "Read1Cycles")
         IN  IF longer.raised # "" THEN longer
             ELSE IF longer.val
             THEN Raise("Exception", "AdapterRead1 is longer then Reads.Read1Cycles", <<>>)
             ELSE Return(None)

adapterRead2Rule(d) ==
    IF "AdapterRead2" \notin DOMAIN Get(d, BCLConvert_Settings).dict THEN Return(None)
    ELSE IF ~In(Reads, d) THEN Raise("KeyError", "Reads", <<>>)
    ELSE IF "Read2Cycles" \notin DOMAIN Get(d, Reads).dict
    THEN Raise("Exception", "AdapterRead2 defined, but no Read2Cycles entry in Reads", <<>>)
    ELSE LET longer == adapterTooLong(d, "AdapterRead2", "Read2Cycles")
         IN  IF longer.raised # "" THEN longer
             ELSE IF longer.val
             THEN Raise("Exception", "AdapterRead2 is longer then Reads.Read2Cycles", <<>>)
             ELSE Return(None)

barcodeMismatchesRule(d, setting, cyclesname) ==
    IF setting \notin DOMAIN Get(d, BCLConvert_Settings).dict THEN Return(None)
    ELSE IF ~In(Reads, d) THEN Raise("KeyError", "Reads", <<>>)
    ELSE IF cyclesname \notin DOMAIN Get(d, Reads).dict
    THEN Raise("Exception", "BarcodeMismatches defined, but no index cycles in Reads", <<cyclesname>>)
    ELSE Return(None)

\* the rules on BCLConvert_Settings in sequence: the first that raises ends the call
settingsRules(d) ==
    LET r1 == overrideCyclesRule(d)
        r2 == adapterRead1Rule(d)
        r3 == adapterRead2Rule(d)
        r4 == barcodeMismatchesRule(d, "BarcodeMismatchesIndex1", "Index1Cycles")
        r5 == barcodeMismatchesRule(d, "BarcodeMismatchesIndex2", "Index2Cycles")
    IN  IF r1.raised # "" THEN r1
        ELSE IF r2.raised # "" THEN r2
        ELSE IF r3.raised # "" THEN r3
        ELSE IF r4.raised # "" THEN r4
        ELSE r5

\* the uniqueness rule on the rows of BCLConvert_Data
dataRule(d) ==
    LET rows == Get(d, BCLConvert_Data).list
    IN  IF ~(Len(rows) > 1) THEN Return(None)
        ELSE IF "Index" \notin DOMAIN rows[1]
        THEN Raise("Exception", "No Index found in BCLConvert_Data, although it contains more than one sample", <<>>)
        ELSE IF \E i \in 1..Len(rows) : "Index" \notin DOMAIN rows[i]
        THEN Raise("KeyError", "Index", <<>>)
        ELSE IF "Index2" \in DOMAIN rows[1] /\ \E i \in 1..Len(rows) : "Index2" \notin DOMAIN rows[i]
        THEN Raise("KeyError", "Index2", <<>>)
        ELSE LET index == IF "Index2" \in DOMAIN rows[1]
                          THEN [i \in 1..Len(rows) |-> rows[i]["Index"] \o rows[i]["Index2"]]
                          ELSE [i \in 1..Len(rows) |-> rows[i]["Index"]]
             IN  IF Cardinality({ index[i] : i \in 1..Len(index) }) # Len(index)
                 THEN Raise("Exception", "Indices are not unique.", <<>>)
                 ELSE Return(None)

illuminasamplesheetv2logic(d) ==
    LET s == IF In(BCLConvert_Settings, d) THEN settingsRules(d) ELSE Return(None)
    IN  IF s.raised # "" THEN s
        ELSE IF In(BCLConvert_Data, d) THEN dataRule(d) ELSE Return(None)

(***************************************************************************)
(* basespacelogic                                                          *)
(***************************************************************************)
\* [i['Sample_ID'] for i in rows]
sampleIds(rows) ==
    IF \E i \in 1..Len(rows) : "Sample_ID" \notin DOMAIN rows[i]
    THEN Raise("KeyError", "Sample_ID", <<>>)
    ELSE Return([i \in 1..Len(rows) |-> rows[i]["Sample_ID"]])

\* the loop run in the other direction, over the cloud ids
RECURSIVE checkSampleIds_reversed(_, _)
checkSampleIds_reversed(convert_ids, cloud_ids) ==
    IF cloud_ids = <<>> THEN Return(None)
    ELSE IF Head(cloud_ids) \notin { convert_ids[i] : i \in 1..Len(convert_ids) }
         THEN Raise("Exception", "Sample_ID is defined in the Cloud_Data section, but not in the BCLConvert_Data section", Head(cloud_ids))
         ELSE checkSampleIds_reversed(convert_ids, Tail(cloud_ids))

\* the loop over bclconvert_sample_ids
RECURSIVE checkSampleIds(_, _)
checkSampleIds(convert_ids, cloud_ids) ==
    IF convert_ids = <<>> THEN Return(None)
    ELSE IF Head(convert_ids) \notin { cloud_ids[i] : i \in 1..Len(cloud_ids) }
         THEN Raise("Exception", "Sample_ID is defined in the BCLConvert_Data section, but not in the Cloud_Data section", Head(convert_ids))
         ELSE checkSampleIds(Tail(convert_ids), cloud_ids)

basespacelogic(d) ==
    IF ~In(Cloud_Data, d) THEN Raise("Exception", "no Cloud_Data section", <<>>)
    ELSE IF ~In(BCLConvert_Data, d) THEN Raise("Exception", "no BCLConvert_Data section", <<>>)
    ELSE LET cloud_sample_ids == sampleIds(Get(d, Cloud_Data).list)
             bclconvert_sample_ids == sampleIds(Get(d, BCLConvert_Data).list)
         IN  IF cloud_sample_ids.raised # "" THEN cloud_sample_ids
             ELSE IF bclconvert_sample_ids.raised # "" THEN bclconvert_sample_ids
             ELSE checkSampleIds(bclconvert_sample_ids.val, cloud_sample_ids.val)

(***************************************************************************)
(* Inputs of the validators: documents holding Reads, BCLConvert_Settings, *)
(* BCLConvert_Data and Cloud_Data sections, in four families.              *)
(***************************************************************************)
MaxRows == 2          \* rows of a data section

\* the dicts over a subset of the keys of choices, each key with one of its values
PartialDicts(choices) ==
    UNION { { f \in [S -> UNION { choices[k] : k \in S }] : \A k \in S : f[k] \in choices[k] }
            : S \in SUBSET DOMAIN choices }

DictContents(choices) == { DictContent(f) : f \in PartialDicts(choices) }

\* the data sections of at most MaxRows rows
RowLists(rows) == { ListContent(l) : l \in UNION { [1..n -> rows] : n \in 0..MaxRows } }

Absent == [present |-> FALSE, val |-> DictContent(EmptyDict)]

Present(v) == [present |-> TRUE, val |-> v]

Optional(values) == {Absent} \cup { Present(v) : v \in values }

\* the document with the given sections, those present, in this order
MakeDoc(reads, settings, data, cloud, other) ==
    LET all == << [key |-> Reads, opt |-> reads],
                  [key |-> BCLConvert_Settings, opt |-> settings],
                  [key |-> BCLConvert_Data, opt |-> data],
                  [key |-> Cloud_Data, opt |-> cloud],
                  [key |-> <<"Read2Cycles">>, opt |-> other] >>
        kept == SelectSeq(all, LAMBDA e : e.opt.present)
    IN  [i \in 1..Len(kept) |-> [key |-> kept[i].key, val |-> kept[i].opt.val]]

ReadsChoices ==
    [ Read1Cycles |-> {PyInt(1), PyInt(2)}, Read2Cycles |-> {PyInt(2)},
      Index1Cycles |-> {PyInt(1)}, Index2Cycles |-> {PyInt(1)} ]

CycleSettingsChoices ==
    [ OverrideCycles |-> { PyStr(<<"Y", "2">>),
                           PyStr(<<"Y", "2", ";", "Y", "2">>),
                           PyStr(<<"Y", "2", ";", "I", "1", ";", "Y", "2">>),
                           PyStr(<<"Y", "2", ";", "I", "1", ";", "I", "1", ";", "Y", "2">>),
                           PyStr(<<"Y">>) },
      AdapterRead1 |-> { PyStr(<<"A">>), PyStr(<<"A", "C">>), PyStr(<<"A", "C", "G">>) } ]

IndexSettingsChoices ==
    [ AdapterRead2 |-> { PyStr(<<"A">>), PyStr(<<"A", "C", "G">>) },
      BarcodeMismatchesIndex1 |-> {PyInt(1)},
      BarcodeMismatchesIndex2 |-> {PyInt(1)} ]

\* rows with a Sample_ID and optional Index and Index2
IndexRows ==
    { [k \in DOMAIN r \cup {"Sample_ID"} |-> IF k = "Sample_ID" THEN <<"s", "1">> ELSE r[k]]
      : r \in PartialDicts([ Index |-> {<<"A">>, <<"A", "C">>},
                             Index2 |-> {<<"G">>, <<"C", "G">>} ]) }

SampleRows == { [Sample_ID |-> id] : id \in {<<"s", "1">>, <<"s", "2">>, <<"s", "3">>} }

ValidatorDocs ==
    { MakeDoc(reads, settings, Absent, Absent, other)
        : reads \in Optional(DictContents(ReadsChoices)),
          settings \in Optional(DictContents(CycleSettingsChoices)),
          other \in Optional({DictContent([Note |-> PyStr(<<"x">>)])}) }
    \cup { MakeDoc(reads, settings, Absent, Absent, Absent)
        : reads \in Optional(DictContents(ReadsChoices)),
          settings \in Optional(DictContents(IndexSettingsChoices)) }
    \cup { MakeDoc(Absent, Absent, data, Absent, Absent)
        : data \in Optional(RowLists(IndexRows)) }
    \cup { MakeDoc(Absent, Absent, data, cloud, Absent)
        : data \in Optional(RowLists(SampleRows)), cloud \in Optional(RowLists(SampleRows)) }

InitValidators ==
    /\ pc = "call"
    /\ doc \in ValidatorDocs
    /\ cyclestr = <<>>
    /\ validation = None
    /\ vidx = 1
    /\ invoked = <<>>
    /\ groupRuns = 0
    /\ sheet = None
    /\ result = None

CallLogic ==
    /\ pc = "call"
    /\ result' = illuminasamplesheetv2logic(doc)
    /\ pc' = "logic_returned"
    /\ UNCHANGED <<cyclestr, doc, validation, vidx, invoked, groupRuns, sheet>>

CallBasespace ==
    /\ pc = "call"
    /\ result' = basespacelogic(doc)
    /\ pc' = "basespace_returned"
    /\ UNCHANGED <<cyclestr, doc, validation, vidx, invoked, groupRuns, sheet>>

NextValidators == CallLogic \/ CallBasespace

SpecValidators == InitValidators /\ [][NextValidators]_vars

SegmentKeys == {"Read1Cycles", "Read2Cycles", "Index1Cycles", "Index2Cycles"}

\* C3: when illuminasamplesheetv2logic accepts a document with OverrideCycles, the
\* names its expansion produces are exactly the segment names declared in Reads,
\* and each Reads count is the length of the expansion
OverrideCyclesCoversReads ==
    (/\ pc = "logic_returned"
     /\ result.raised = ""
     /\ In(BCLConvert_Settings, doc)
     /\ "OverrideCycles" \in DOMAIN Get(doc, BCLConvert_Settings).dict) =>
        LET cycles == parse_overrideCycles(Get(doc, BCLConvert_Settings).dict["OverrideCycles"].v)
        IN  /\ cycles.raised = ""
            /\ In(Reads, doc)
            /\ { cycles.val[i][1] : i \in 1..Len(cycles.val) }
                   = DOMAIN Get(doc, Reads).dict \cap SegmentKeys
            /\ \A i \in 1..Len(cycles.val) :
                   Get(doc, Reads).dict[cycles.val[i][1]] = PyInt(Len(cycles.val[i][2]))

\* the document without the key of its BCLConvert_Settings section
WithoutSetting(d, key) ==
    [i \in 1..Len(d) |->
        IF d[i].key = BCLConvert_Settings
        THEN [key |-> d[i].key,
              val |-> DictContent([k \in DOMAIN d[i].val.dict \ {key} |-> d[i].val.dict[k]])]
        ELSE d[i]]

\* C4: with AdapterRead1 present, an integer Reads.Read1Cycles and no other rule
\* violated, illuminasamplesheetv2logic fails exactly when AdapterRead1 is longer
\* than Read1Cycles
AdapterRead1WithinRead1Cycles ==
    (/\ pc = "logic_returned"
     /\ In(BCLConvert_Settings, doc)
     /\ "AdapterRead1" \in DOMAIN Get(doc, BCLConvert_Settings).dict
     /\ In(Reads, doc)
     /\ "Read1Cycles" \in DOMAIN Get(doc, Reads).dict
     /\ Get(doc, Reads).dict["Read1Cycles"].type = "int"
     /\ illuminasamplesheetv2logic(WithoutSetting(doc, "AdapterRead1")).raised = "") =>
        (result.raised # ""
            <=> Len(Get(doc, BCLConvert_Settings).dict["AdapterRead1"].v)
                    > Get(doc, Reads).dict["Read1Cycles"].v)

\* the Index+Index2 concatenation of a row, Index alone when it has no Index2
IndexCombination(row) ==
    IF "Index2" \in DOMAIN row THEN row["Index"] \o row["Index2"] ELSE row["Index"]

\* C5: with two or more rows (each with an Index) illuminasamplesheetv2logic fails
\* exactly when two rows have the same Index+Index2 combination; with one row it
\* never fails
IndexCombinationsUnique ==
    (/\ pc = "logic_returned"
     /\ In(BCLConvert_Data, doc)
     /\ ~In(BCLConvert_Settings, doc)) =>
        LET rows == Get(doc, BCLConvert_Data).list
        IN  /\ Len(rows) = 1 => result.raised = ""
            /\ (Len(rows) >= 2 /\ \A i \in 1..Len(rows) : "Index" \in DOMAIN rows[i]) =>
                   (result.raised # ""
                       <=> \E i, j \in 1..Len(rows) :
                               i < j /\ IndexCombination(rows[i]) = IndexCombination(rows[j]))

\* the Sample_IDs of a data section
SampleIdSet(rows) == { rows[i]["Sample_ID"] : i \in 1..Len(rows) }

\* C6: basespacelogic passes exactly when Cloud_Data and BCLConvert_Data are both
\* present and every Sample_ID of BCLConvert_Data is a Sample_ID of Cloud_Data
BasespaceSubset ==
    pc = "basespace_returned" =>
        (result.raised = ""
            <=> /\ In(Cloud_Data, doc)
                /\ In(BCLConvert_Data, doc)
                /\ SampleIdSet(Get(doc, BCLConvert_Data).list) \subseteq SampleIdSet(Get(doc, Cloud_Data).list))

\* basespacelogic has passed a document whose Cloud_Data holds a Sample_ID that
\* BCLConvert_Data does not
BasespaceSubsetWitness ==
    /\ pc = "basespace_returned"
    /\ result.raised = ""
    /\ Len(Get(doc, BCLConvert_Data).list) >= 1
    /\ SampleIdSet(Get(doc, Cloud_Data).list) \ SampleIdSet(Get(doc, BCLConvert_Data).list) # {}

(***************************************************************************)
(* SampleSheetV2.__init__: the validation loop and the grouping            *)
(***************************************************************************)
\* an element of validation: a schema (a dict), whose validation by jsonschema
\* passes or fails on the document, or one of the two validator functions
SchemaValidator(passes) == [type |-> "dict", passes |-> passes, name |-> "schema"]

FunctionValidator(name) == [type |-> "function", passes |-> TRUE, name |-> name]

\* validation as a list
ListOf(items) == [type |-> "list", items |-> items]

\* validate(instance=secsheet, schema=schema) of jsonschema
validate(secsheet, schema) ==
    IF schema.passes THEN Return(None)
    ELSE Raise("ValidationError", "the document does not match the schema", <<>>)

\* the body of the validation loop with the outcome of a schema dropped
invoke_unchecked(schema, secsheet) ==
    IF schema.type = "dict" THEN Return(None)
    ELSE IF schema.type = "function"
         THEN IF schema.name = "illuminasamplesheetv2logic"
              THEN illuminasamplesheetv2logic(secsheet)
              ELSE basespacelogic(secsheet)
         ELSE Return(None)

\* the body of the validation loop: a dict is validated, a function is called,
\* anything else is passed over
invoke(schema, secsheet) ==
    IF schema.type = "dict" THEN validate(secsheet, schema)
    ELSE IF schema.type = "function"
         THEN IF schema.name = "illuminasamplesheetv2logic"
              THEN illuminasamplesheetv2logic(secsheet)
              ELSE basespacelogic(secsheet)
         ELSE Return(None)

\* key.endswith("_" + word)
endswith(key, word) == Len(key) >= 2 /\ key[Len(key)] = word

\* secname with every trailing suffix stripped
RECURSIVE secname_stripAll(_)
secname_stripAll(k) ==
    IF Len(k) >= 2 /\ k[Len(k)] \in {"Settings", "Data"}
    THEN LET rest == SubSeq(k, 1, Len(k) - 1)
         IN  IF Len(rest) >= 2 /\ rest[Len(rest)] \in {"Settings", "Data"}
             THEN secname_stripAll(rest) ELSE rest
    ELSE None

\* secname: group 1 of ^(.*)_(Settings|Data)$, None without a match
secname(k) ==
    IF Len(k) >= 2 /\ k[Len(k)] \in {"Settings", "Data"}
    THEN SubSeq(k, 1, Len(k) - 1)
    ELSE None

\* the instance when __init__ starts assigning: applications is an empty OrderedDict
NewSheet ==
    [ attrs |-> {"applications"},
      applications |-> <<>>,
      header |-> DictContent(EmptyDict),
      reads |-> DictContent(EmptyDict) ]

\* self.applications[sectionname][field] = value, after
\* if sectionname not in self.applications: self.applications[sectionname] = dict()
setApplication(self, sectionname, field, value) ==
    LET apps == self.applications
        known == \E j \in 1..Len(apps) : apps[j].name = sectionname
        with == IF known THEN apps ELSE Append(apps, [name |-> sectionname, app |-> EmptyDict])
    IN  [self EXCEPT !.applications =
            [j \in 1..Len(with) |->
                IF with[j].name = sectionname
                THEN [name |-> sectionname,
                      app |-> [f \in DOMAIN with[j].app \cup {field} |->
                                  IF f = field THEN value ELSE with[j].app[f]]]
                ELSE with[j]]]

\* the loop over secsheet.keys(), from the i-th key on
RECURSIVE grouping(_, _, _)
grouping(secsheet, i, self) ==
    IF i > Len(secsheet) THEN self
    ELSE LET key == secsheet[i].key
             sectionname == secname(key)
         IN  grouping(secsheet, i + 1,
                 IF endswith(key, "Settings")
                 THEN setApplication(self, sectionname, "settings", Get(secsheet, key))
                 ELSE IF endswith(key, "Data")
                 THEN setApplication(self, sectionname, "data", Get(secsheet, key))
                 ELSE IF key = Header
                 THEN [self EXCEPT !.attrs = @ \cup {"header"}, !.header = Get(secsheet, Header)]
                 ELSE IF key = Reads
                 THEN [self EXCEPT !.attrs = @ \cup {"reads"}, !.reads = Get(secsheet, Reads)]
                 ELSE self)

(***************************************************************************)
(* SampleSheetV2.to_string                                                 *)
(***************************************************************************)
\* res += '[name]\n' followed by res += renderer(content): one block of the text
Block(name, renderer, content) == [section |-> name, renderer |-> renderer, content |-> content]

\* the blocks of the applications, from the j-th on
RECURSIVE applicationBlocks(_, _)
applicationBlocks(apps, j) ==
    IF j > Len(apps) THEN <<>>
    ELSE (IF "settings" \in DOMAIN apps[j].app
          THEN <<Block(Append(apps[j].name, "Settings"), "settings_to_string", apps[j].app["settings"])>>
          ELSE <<>>)
         \o (IF "data" \in DOMAIN apps[j].app
             THEN <<Block(Append(apps[j].name, "Data"), "data_to_string", apps[j].app["data"])>>
             ELSE <<>>)
         \o applicationBlocks(apps, j + 1)

to_string(self) ==
    Return((IF "header" \in self.attrs
            THEN <<Block(Header, "settings_to_string", self.header)>> ELSE <<>>)
           \o (IF "Reads" \in self.attrs
               THEN <<Block(Reads, "settings_to_string", self.reads)>> ELSE <<>>)
           \o applicationBlocks(self.applications, 1))

(***************************************************************************)
(* Construction and rendering, step by step.                               *)
(***************************************************************************)
MaxSections == 4      \* sections of a document
MaxValidators == 3    \* elements of the validation list

\* the content of a section of the documents built below: a settings section
\* names its origin, a data section holds one row
ContentOf(name) ==
    IF name[Len(name)] = "Data"
    THEN ListContent(<<[Sample_ID |-> <<"s", "1">>, Origin |-> name]>>)
    ELSE DictContent([Origin |-> PyStr(name)])

SectionNames ==
    { Header, Reads, BCLConvert_Settings, BCLConvert_Data, Cloud_Data,
      <<"Other">>, <<"Header", "Data">>, <<"BCLConvert", "Data", "Settings">> }

\* the documents of at most MaxSections sections with distinct names
SectionOrders ==
    UNION { { o \in [1..n -> SectionNames] : \A a, b \in 1..n : a # b => o[a] # o[b] }
            : n \in 0..MaxSections }

DocOf(order) == [i \in 1..Len(order) |-> [key |-> order[i], val |-> ContentOf(order[i])]]

Validators ==
    { SchemaValidator(TRUE), SchemaValidator(FALSE),
      FunctionValidator("illuminasamplesheetv2logic"), FunctionValidator("basespacelogic") }

Validations ==
    {None} \cup Validators
    \cup { ListOf(items) : items \in UNION { [1..n -> Validators] : n \in 0..MaxValidators } }

\* the default of the validation parameter
DefaultValidation ==
    ListOf(<<SchemaValidator(TRUE), FunctionValidator("illuminasamplesheetv2logic")>>)

PairedDocs ==
    { DocOf(<<Header, Reads, BCLConvert_Settings, BCLConvert_Data, Cloud_Settings, Cloud_Data>>),
      DocOf(<<Header, Reads, BCLConvert_Data>>),
      DocOf(<<>>) }

Init ==
    /\ pc = "init"
    /\ \/ doc \in { DocOf(o) : o \in SectionOrders }
          /\ validation \in {ListOf(<<>>), DefaultValidation}
       \/ doc \in PairedDocs /\ validation \in Validations
    /\ cyclestr = <<>>
    /\ vidx = 1
    /\ invoked = <<>>
    /\ groupRuns = 0
    /\ sheet = None
    /\ result = None

\* validation is None / a list / anything else, which becomes a one-element list
Normalise ==
    /\ pc = "init"
    /\ validation' = IF validation.type \in {"NoneType", "list"} THEN validation
                     ELSE ListOf(<<validation>>)
    /\ pc' = "validate"
    /\ UNCHANGED <<cyclestr, doc, vidx, invoked, groupRuns, sheet, result>>

\* for schema in validation, with validation None: None is not iterable
IterateNone ==
    /\ pc = "validate"
    /\ validation.type = "NoneType"
    /\ result' = Raise("TypeError", "'NoneType' object is not iterable", <<>>)
    /\ pc' = "raised"
    /\ UNCHANGED <<cyclestr, doc, validation, vidx, invoked, groupRuns, sheet>>

\* one iteration of the validation loop
InvokeValidator ==
    /\ pc = "validate"
    /\ validation.type = "list"
    /\ vidx <= Len(validation.items)
    /\ LET schema == validation.items[vidx]
           outcome == invoke(schema, doc)
       IN  /\ invoked' = IF schema.type \in {"dict", "function"}
                         THEN Append(invoked, vidx) ELSE invoked
           /\ IF outcome.raised # ""
              THEN pc' = "raised" /\ result' = outcome
              ELSE pc' = "validate" /\ result' = result
    /\ vidx' = vidx + 1
    /\ UNCHANGED <<cyclestr, doc, validation, groupRuns, sheet>>

\* the validation loop is over: the sections are grouped and __init__ returns
Group ==
    /\ pc = "validate"
    /\ validation.type = "list"
    /\ vidx > Len(validation.items)
    /\ sheet' = grouping(doc, 1, NewSheet)
    /\ groupRuns' = groupRuns + 1
    /\ result' = Return(None)
    /\ pc' = "built"
    /\ UNCHANGED <<cyclestr, doc, validation, vidx, invoked>>

ToString ==
    /\ pc = "built"
    /\ result' = to_string(sheet)
    /\ pc' = "rendered"
    /\ UNCHANGED <<cyclestr, doc, validation, vidx, invoked, groupRuns, sheet>>

Next == Normalise \/ IterateNone \/ InvokeValidator \/ Group \/ ToString

Spec == Init /\ [][Next]_vars

(***************************************************************************)
(* What the specification says of grouping and rendering.                  *)
(***************************************************************************)
\* the section name ends in one of the two recognised suffixes
IsApplicationSection(key) == Len(key) >= 2 /\ key[Len(key)] \in {"Settings", "Data"}

\* the name left when exactly one trailing suffix is stripped
ApplicationName(key) == SubSeq(key, 1, Len(key) - 1)

\* the distinct application names of a document, by first occurrence
RECURSIVE FirstSeen(_, _, _)
FirstSeen(d, i, seen) ==
    IF i > Len(d) THEN seen
    ELSE IF /\ IsApplicationSection(d[i].key)
            /\ \A j \in 1..Len(seen) : seen[j] # ApplicationName(d[i].key)
         THEN FirstSeen(d, i + 1, Append(seen, ApplicationName(d[i].key)))
         ELSE FirstSeen(d, i + 1, seen)

\* the field of an application entry holds the content of the section name+suffix
\* iff the document has that section
FieldMirrorsSection(d, entry, field, suffix) ==
    /\ field \in DOMAIN entry.app <=> In(Append(entry.name, suffix), d)
    /\ field \in DOMAIN entry.app => entry.app[field] = Get(d, Append(entry.name, suffix))

\* one entry per distinct stripped name, in first-seen order, each mirroring its
\* sections; Header and Reads fill their fields; nothing else adds anything
GroupedAsSpecified ==
    LET apps == sheet.applications
    IN  /\ [j \in 1..Len(apps) |-> apps[j].name] = FirstSeen(doc, 1, <<>>)
        /\ \A j \in 1..Len(apps) :
               /\ DOMAIN apps[j].app \subseteq {"settings", "data"}
               /\ FieldMirrorsSection(doc, apps[j], "settings", "Settings")
               /\ FieldMirrorsSection(doc, apps[j], "data", "Data")
        /\ sheet.attrs = {"applications"}
                             \cup (IF In(Header, doc) THEN {"header"} ELSE {})
                             \cup (IF In(Reads, doc) THEN {"reads"} ELSE {})
        /\ In(Header, doc) => sheet.header = Get(doc, Header)
        /\ In(Reads, doc) => sheet.reads = Get(doc, Reads)

\* C7 as stated: after a successful construction the applications are grouped as
\* specified, and Header and Reads are never application keys
GroupingHeaderReadsNeverKeys ==
    pc \in {"built", "rendered"} =>
        /\ GroupedAsSpecified
        /\ \A j \in 1..Len(sheet.applications) :
               sheet.applications[j].name \notin {Header, Reads}

\* C7 as amended: after a successful construction the applications are grouped as
\* specified, and Header or Reads is an application key only when the document
\* has a section named Header_Settings, Header_Data, Reads_Settings or Reads_Data
GroupingByApplication ==
    pc \in {"built", "rendered"} =>
        /\ GroupedAsSpecified
        /\ \A j \in 1..Len(sheet.applications) :
               sheet.applications[j].name \in {Header, Reads} =>
                   \/ In(Append(sheet.applications[j].name, "Settings"), doc)
                   \/ In(Append(sheet.applications[j].name, "Data"), doc)

\* a sheet has been built from a document in which another application's section
\* and an unrecognised section stand between the two sections of an application
GroupingByApplicationWitness ==
    /\ pc = "built"
    /\ Len(doc) = 4
    /\ doc[1].key = BCLConvert_Settings
    /\ doc[2].key = Cloud_Data
    /\ doc[3].key = <<"Other">>
    /\ doc[4].key = BCLConvert_Data
    /\ Len(sheet.applications) = 2
    /\ DOMAIN sheet.applications[1].app = {"settings", "data"}

\* the section header lines the specification prescribes for a document
ExpectedSections(d) ==
    LET names == FirstSeen(d, 1, <<>>)
        ofApp(name) ==
            (IF In(Append(name, "Settings"), d) THEN <<Append(name, "Settings")>> ELSE <<>>)
            \o (IF In(Append(name, "Data"), d) THEN <<Append(name, "Data")>> ELSE <<>>)
        from[j \in 1..(Len(names) + 1)] ==
            IF j > Len(names) THEN <<>> ELSE ofApp(names[j]) \o from[j + 1]
    IN  (IF In(Header, d) THEN <<Header>> ELSE <<>>)
        \o (IF In(Reads, d) THEN <<Reads>> ELSE <<>>)
        \o from[1]

\* C8: to_string emits the section header lines of Header, Reads and of each
\* application's settings and data sections, in that order, and no other
ToStringEmitsEverySection ==
    pc = "rendered" =>
        [j \in 1..Len(result.val) |-> result.val[j].section] = ExpectedSections(doc)

\* the validators given to the constructor, as a list
GivenValidators ==
    IF validation.type = "list" THEN validation.items
    ELSE IF validation.type = "NoneType" THEN <<>>
    ELSE <<validation>>

\* the validator accepts the document
ValidatorPasses(v, d) ==
    IF v.type = "dict" THEN v.passes
    ELSE IF v.name = "illuminasamplesheetv2logic"
         THEN illuminasamplesheetv2logic(d).raised = ""
         ELSE basespacelogic(d).raised = ""

====
